---- MODULE Spec2Model ----
(***************************************************************************)
(* The sales-order aggregate (SalesOrder, SalesOrderItem) and the Money    *)
(* value object it computes with.                                          *)
(*                                                                         *)
(* Conventions of the model                                                *)
(*  - a JavaScript `number` is a record [nan, v]: either NaN or a whole    *)
(*    number v (amounts are counted in whole minor units); comparisons     *)
(*    with NaN are false and arithmetic on NaN yields NaN, as in IEEE 754; *)
(*  - a JavaScript string is a sequence of one-character strings, so that  *)
(*    trim() is computed and not assumed;                                  *)
(*  - a call either returns (Ok) or throws `new Error(message)` (Throw);   *)
(*    a message built by a template literal is the sequence of its parts;  *)
(*  - crypto.randomUUID() hands out the next unused token of a counter.    *)
(***************************************************************************)
EXTENDS Integers, Sequences, FiniteSets, TLC

\* ---------------------------------------------------------------- bounds
MaxItems == 2
MaxQty == 2

\* ------------------------------------------------------- JavaScript values
NaN == [nan |-> TRUE, v |-> 0]
Num(n) == [nan |-> FALSE, v |-> n]
Lt(a, b) == ~a.nan /\ ~b.nan /\ a.v < b.v
Le(a, b) == ~a.nan /\ ~b.nan /\ a.v <= b.v
Plus(a, b) == IF a.nan \/ b.nan THEN NaN ELSE Num(a.v + b.v)
Times(a, b) == IF a.nan \/ b.nan THEN NaN ELSE Num(a.v * b.v)

undefined == [undefined |-> TRUE]
Ok(v) == [ok |-> TRUE, value |-> v]
Throw(message) == [ok |-> FALSE, error |-> message]

Whitespace == {" ", "\t"}

RECURSIVE TrimStart(_)
TrimStart(s) ==
    IF s # <<>> /\ Head(s) \in Whitespace THEN TrimStart(Tail(s)) ELSE s

RECURSIVE TrimEnd(_)
TrimEnd(s) ==
    IF s # <<>> /\ s[Len(s)] \in Whitespace
    THEN TrimEnd(SubSeq(s, 1, Len(s) - 1)) ELSE s

trim(s) == TrimEnd(TrimStart(s))

\* ------------------------------------------------------------- Currency
UppercaseLetter ==
    {"A", "B", "C", "D", "E", "F", "G",
     "H", "I", "J", "K", "L", "M", "N",
     "O", "P", "Q", "R", "S", "T", "U",
     "V", "W", "X", "Y", "Z"}

\* the compile-time type CurrencyCode; nothing of it is left at run time
CurrencyCode(code) ==
    Len(code) = 3 /\ \A i \in 1..3 : code[i] \in UppercaseLetter

\* the constructor stores the code it is given
Currency(code) == [code |-> code]
USD == Currency(<<"U", "S", "D">>)
EUR == Currency(<<"E", "U", "R">>)
Currencies == {USD, EUR}

\* ---------------------------------------------------------------- Money
Money(amount, currency) ==
    IF Lt(amount, Num(0))
    THEN Throw(<<"Amount cannot be negative">>)
    ELSE Ok([amount |-> amount, currency |-> currency])

\* a variant that adds the amounts whatever the two currencies are
add_ignoresCurrency(this, other) ==
    Money(Plus(this.amount, other.amount), this.currency)

add(this, other) ==
    IF ~(this.currency.code = other.currency.code)
    THEN Throw(<<"Cannot add amounts with different currencies">>)
    ELSE Money(Plus(this.amount, other.amount), this.currency)

multiply(this, factor) ==
    IF Lt(factor, Num(0))
    THEN Throw(<<"Factor cannot be negative: ", factor>>)
    ELSE Money(Times(this.amount, factor), this.currency)

\* ------------------------------------------------------------- ProductId
null == [null |-> TRUE]
\* a string argument that may also be undefined
String(chars) == [chars |-> chars]
ProductId(id) == [id |-> id]

\* --------------------------------------------------------- SalesOrderItem
SalesOrderItem(orderId, productId, quantity, unitPrice, randomUUID) ==
    IF Le(quantity, Num(0))
    THEN Throw(<<"Quantity must be greater than zero">>)
    ELSE Ok([orderId |-> orderId, itemId |-> randomUUID,
             productId |-> productId, quantity |-> quantity,
             unitPrice |-> unitPrice])

\* a variant that forgets the quantity
calculateItemTotal_ignoresQuantity(item) ==
    LET product == multiply(item.unitPrice, Num(1))
    IN  IF ~product.ok THEN product
        ELSE Money(product.value.amount, item.unitPrice.currency)

calculateItemTotal(item) ==
    LET product == multiply(item.unitPrice, item.quantity)
    IN  IF ~product.ok THEN product
        ELSE Money(product.value.amount, item.unitPrice.currency)

\* --------------------------------------------------------------- DateTime
DateTime(value, now) ==
    IF value.kind \in {"undefined", "empty"} THEN Ok([date |-> now])
    ELSE IF value.kind = "invalid" THEN Throw(<<"Invalid date: ", "Invalid Date">>)
    ELSE IF value.t > now THEN Throw(<<"Date cannot be in the future: ", value.t>>)
    ELSE Ok([date |-> value.t])

\* ------------------------------------------------------------- SalesOrder
SalesOrderStates == {"PENDING", "CONFIRMED", "SHIPPED", "CANCELLED"}

\* a variant that starts the order as CONFIRMED
SalesOrder_startsConfirmed(customerId, currency, orderedAt, now, randomUUID) ==
    IF customerId = undefined \/ customerId.chars = <<>>
       \/ Len(trim(customerId.chars)) = 0
    THEN Throw(<<"Customer ID is required">>)
    ELSE LET at == DateTime(orderedAt, now)
         IN  IF ~at.ok THEN at
             ELSE Ok([customerId |-> customerId, id |-> randomUUID,
                      items |-> <<>>, orderedAt |-> at.value,
                      currency |-> currency, state |-> "CONFIRMED"])

\* a variant that does not trim the customer id
SalesOrder_noTrim(customerId, currency, orderedAt, now, randomUUID) ==
    IF customerId = undefined \/ customerId.chars = <<>>
    THEN Throw(<<"Customer ID is required">>)
    ELSE LET at == DateTime(orderedAt, now)
         IN  IF ~at.ok THEN at
             ELSE Ok([customerId |-> customerId, id |-> randomUUID,
                      items |-> <<>>, orderedAt |-> at.value,
                      currency |-> currency, state |-> "PENDING"])

SalesOrder(customerId, currency, orderedAt, now, randomUUID) ==
    IF customerId = undefined \/ customerId.chars = <<>>
       \/ Len(trim(customerId.chars)) = 0
    THEN Throw(<<"Customer ID is required">>)
    ELSE LET at == DateTime(orderedAt, now)
         IN  IF ~at.ok THEN at
             ELSE Ok([customerId |-> customerId, id |-> randomUUID,
                      items |-> <<>>, orderedAt |-> at.value,
                      currency |-> currency, state |-> "PENDING"])

\* _customerId, _id, _items (the array's content), _orderedAt, _currency
\* and _state are the fields of the SalesOrder;
\* uuids  the number of tokens crypto.randomUUID() has handed out;
\* view   what a caller holds after reading the `items` accessor;
\* added  history: the arguments of every addItem call that returned;
\* last   the most recent call: operation, arguments, outcome;
\* history  the calls of the callers that share the order, in the order in
\*          which they ran: caller, operation, state before and after,
\*          number of items after, outcome.
VARIABLES _customerId, _id, _items, _orderedAt, _currency, _state, uuids, view, added, last, history

vars == <<_customerId, _id, _items, _orderedAt, _currency, _state,
          uuids, view, added, last, history>>

order == <<_customerId, _id, _items, _orderedAt, _currency, _state>>

\* tokens available to crypto.randomUUID(): the order, its items, two spare
MaxUuids == MaxItems + 2

\* inputs of the calls
Now == 1
ProductIds == {null, ProductId(<<>>), ProductId(<<" ">>), ProductId(<<"p", "1">>)}
Quantities == {Num(n) : n \in 0..MaxQty} \cup {NaN}
UnitPriceAmounts == {Num(-1), Num(0), Num(2)}

Init ==
    \E currency \in Currencies :
        LET this == SalesOrder(String(<<"c", "1">>), currency, [kind |-> "undefined"], Now, 1)
        IN  /\ this.ok
            /\ _customerId = this.value.customerId
            /\ _id = this.value.id
            /\ _items = this.value.items
            /\ _orderedAt = this.value.orderedAt
            /\ _currency = this.value.currency
            /\ _state = this.value.state
            /\ uuids = 1
            /\ view = [ref |-> "none", array |-> <<>>]
            /\ added = <<>>
            /\ history = <<>>
            /\ last = [op |-> "new", args |-> <<>>, outcome |-> Ok(undefined)]

\* a variant that forgets the SHIPPED state
canAddItems_forgetsShipped == _state # "CANCELLED"

canAddItems == _state # "CANCELLED" /\ _state # "SHIPPED"

\* a variant that validates the quantity before the product id
addItem_quantityFirst(productId, quantity, unitPriceAmount) ==
    IF ~canAddItems
    THEN [outcome |-> Throw(<<"Cannot add items to a ", _state, " order">>),
          items |-> _items]
    ELSE IF Le(quantity, Num(0))
    THEN [outcome |-> Throw(<<"Quantity must be greater than zero">>), items |-> _items]
    ELSE IF productId = null \/ Len(trim(productId.id)) = 0
    THEN [outcome |-> Throw(<<"Product ID is required">>), items |-> _items]
    ELSE IF Le(unitPriceAmount, Num(0))
    THEN [outcome |-> Throw(<<"Unit price must be greater than zero">>), items |-> _items]
    ELSE LET unitPrice == Money(unitPriceAmount, _currency)
         IN  IF ~unitPrice.ok THEN [outcome |-> unitPrice, items |-> _items]
             ELSE LET item == SalesOrderItem(_id, productId, quantity,
                                             unitPrice.value, uuids + 1)
                  IN  IF ~item.ok THEN [outcome |-> item, items |-> _items]
                      ELSE [outcome |-> Ok(undefined),
                            items |-> Append(_items, item.value)]

\* a variant that keeps one entry per product
addItem_oneEntryPerProduct(productId, quantity, unitPriceAmount) ==
    IF ~canAddItems
    THEN [outcome |-> Throw(<<"Cannot add items to a ", _state, " order">>),
          items |-> _items]
    ELSE IF productId = null \/ Len(trim(productId.id)) = 0
    THEN [outcome |-> Throw(<<"Product ID is required">>), items |-> _items]
    ELSE IF Le(quantity, Num(0))
    THEN [outcome |-> Throw(<<"Quantity must be greater than zero">>), items |-> _items]
    ELSE IF Le(unitPriceAmount, Num(0))
    THEN [outcome |-> Throw(<<"Unit price must be greater than zero">>), items |-> _items]
    ELSE LET unitPrice == Money(unitPriceAmount, _currency)
         IN  IF ~unitPrice.ok THEN [outcome |-> unitPrice, items |-> _items]
             ELSE LET item == SalesOrderItem(_id, productId, quantity,
                                             unitPrice.value, uuids + 1)
                  IN  IF ~item.ok THEN [outcome |-> item, items |-> _items]
                      ELSE [outcome |-> Ok(undefined),
                            items |-> IF \E i \in 1..Len(_items) :
                                            _items[i].productId = productId
                                      THEN _items
                                      ELSE Append(_items, item.value)]

\* a variant that prices every item in one fixed currency
addItem_fixedCurrency(productId, quantity, unitPriceAmount) ==
    IF ~canAddItems
    THEN [outcome |-> Throw(<<"Cannot add items to a ", _state, " order">>),
          items |-> _items]
    ELSE IF productId = null \/ Len(trim(productId.id)) = 0
    THEN [outcome |-> Throw(<<"Product ID is required">>), items |-> _items]
    ELSE IF Le(quantity, Num(0))
    THEN [outcome |-> Throw(<<"Quantity must be greater than zero">>), items |-> _items]
    ELSE IF Le(unitPriceAmount, Num(0))
    THEN [outcome |-> Throw(<<"Unit price must be greater than zero">>), items |-> _items]
    ELSE LET unitPrice == Money(unitPriceAmount, USD)
         IN  IF ~unitPrice.ok THEN [outcome |-> unitPrice, items |-> _items]
             ELSE LET item == SalesOrderItem(_id, productId, quantity,
                                             unitPrice.value, uuids + 1)
                  IN  IF ~item.ok THEN [outcome |-> item, items |-> _items]
                      ELSE [outcome |-> Ok(undefined),
                            items |-> Append(_items, item.value)]

\* the outcome of addItem and the array content it leaves
addItem(productId, quantity, unitPriceAmount) ==
    IF ~canAddItems
    THEN [outcome |-> Throw(<<"Cannot add items to a ", _state, " order">>),
          items |-> _items]
    ELSE IF productId = null \/ Len(trim(productId.id)) = 0
    THEN [outcome |-> Throw(<<"Product ID is required">>), items |-> _items]
    ELSE IF Le(quantity, Num(0))
    THEN [outcome |-> Throw(<<"Quantity must be greater than zero">>), items |-> _items]
    ELSE IF Le(unitPriceAmount, Num(0))
    THEN [outcome |-> Throw(<<"Unit price must be greater than zero">>), items |-> _items]
    ELSE LET unitPrice == Money(unitPriceAmount, _currency)
         IN  IF ~unitPrice.ok THEN [outcome |-> unitPrice, items |-> _items]
             ELSE LET item == SalesOrderItem(_id, productId, quantity,
                                             unitPrice.value, uuids + 1)
                  IN  IF ~item.ok THEN [outcome |-> item, items |-> _items]
                      ELSE [outcome |-> Ok(undefined),
                            items |-> Append(_items, item.value)]

AddItem(productId, quantity, unitPriceAmount) ==
    LET r == addItem(productId, quantity, unitPriceAmount)
    IN  /\ r.outcome.ok => (Len(_items) < MaxItems /\ uuids < MaxUuids)
        /\ _items' = r.items
        /\ uuids' = IF r.outcome.ok THEN uuids + 1 ELSE uuids
        /\ added' = IF r.outcome.ok
                    THEN Append(added, <<productId, quantity, unitPriceAmount>>)
                    ELSE added
        /\ last' = [op |-> "addItem",
                    args |-> <<productId, quantity, unitPriceAmount>>,
                    outcome |-> r.outcome]
        /\ UNCHANGED <<_customerId, _id, _orderedAt, _currency, _state, view, history>>

\* Array.prototype.reduce with an initial value, left to right
RECURSIVE reduce(_, _)
reduce(array, total) ==
    IF array = <<>> \/ ~total.ok THEN total
    ELSE LET itemTotal == calculateItemTotal(Head(array))
         IN  IF ~itemTotal.ok THEN itemTotal
             ELSE reduce(Tail(array), add(total.value, itemTotal.value))

calculateTotalAmount == reduce(_items, Money(Num(0), _currency))

CalculateTotalAmount ==
    /\ last' = [op |-> "calculateTotalAmount", args |-> <<>>,
                outcome |-> calculateTotalAmount]
    /\ UNCHANGED <<order, uuids, view, added, history>>

\* a variant that also confirms a cancelled order
confirm_reopensCancelled ==
    IF _state = "PENDING" \/ _state = "CANCELLED"
    THEN [outcome |-> Ok(undefined), state |-> "CONFIRMED"]
    ELSE [outcome |-> Throw(<<"Cannot confirm an order in ", _state, " state">>),
          state |-> _state]

\* a variant that confirms an order that is already confirmed
confirm_again ==
    IF _state = "PENDING" \/ _state = "CONFIRMED"
    THEN [outcome |-> Ok(undefined), state |-> "CONFIRMED"]
    ELSE [outcome |-> Throw(<<"Cannot confirm an order in ", _state, " state">>),
          state |-> _state]

confirm ==
    IF _state = "PENDING"
    THEN [outcome |-> Ok(undefined), state |-> "CONFIRMED"]
    ELSE [outcome |-> Throw(<<"Cannot confirm an order in ", _state, " state">>),
          state |-> _state]

\* a variant that empties the item array when it confirms
Confirm_clearsItems ==
    /\ _state' = confirm.state
    /\ _items' = IF confirm.outcome.ok THEN <<>> ELSE _items
    /\ last' = [op |-> "confirm", args |-> <<>>, outcome |-> confirm.outcome]
    /\ UNCHANGED <<_customerId, _id, _orderedAt, _currency, uuids, view, added, history>>

Confirm ==
    /\ _state' = confirm.state
    /\ last' = [op |-> "confirm", args |-> <<>>, outcome |-> confirm.outcome]
    /\ UNCHANGED <<_customerId, _id, _items, _orderedAt, _currency, uuids, view, added, history>>

\* a variant that returns silently when the order is not CONFIRMED
ship_silentNoOp ==
    IF _state = "CONFIRMED"
    THEN [outcome |-> Ok(undefined), state |-> "SHIPPED"]
    ELSE [outcome |-> Ok(undefined), state |-> _state]

\* a variant that also ships a cancelled order
ship_fromCancelled ==
    IF _state = "CONFIRMED" \/ _state = "CANCELLED"
    THEN [outcome |-> Ok(undefined), state |-> "SHIPPED"]
    ELSE [outcome |-> Throw(<<"Cannot ship an order in ", _state, " state">>),
          state |-> _state]

ship ==
    IF _state = "CONFIRMED"
    THEN [outcome |-> Ok(undefined), state |-> "SHIPPED"]
    ELSE [outcome |-> Throw(<<"Cannot ship an order in ", _state, " state">>),
          state |-> _state]

Ship ==
    /\ _state' = ship.state
    /\ last' = [op |-> "ship", args |-> <<>>, outcome |-> ship.outcome]
    /\ UNCHANGED <<_customerId, _id, _items, _orderedAt, _currency, uuids, view, added, history>>

\* a variant that also cancels a shipped order
cancel_fromShipped ==
    IF _state = "PENDING" \/ _state = "CONFIRMED" \/ _state = "SHIPPED"
    THEN [outcome |-> Ok(undefined), state |-> "CANCELLED"]
    ELSE [outcome |-> Throw(<<"Cannot cancel an order in ", _state, " state">>),
          state |-> _state]

\* a variant that assigns the state before it checks the guard
cancel_assignsBeforeCheck ==
    IF _state = "PENDING" \/ _state = "CONFIRMED"
    THEN [outcome |-> Ok(undefined), state |-> "CANCELLED"]
    ELSE [outcome |-> Throw(<<"Cannot cancel an order in ", _state, " state">>),
          state |-> "CANCELLED"]

cancel ==
    IF _state = "PENDING" \/ _state = "CONFIRMED"
    THEN [outcome |-> Ok(undefined), state |-> "CANCELLED"]
    ELSE [outcome |-> Throw(<<"Cannot cancel an order in ", _state, " state">>),
          state |-> _state]

Cancel ==
    /\ _state' = cancel.state
    /\ last' = [op |-> "cancel", args |-> <<>>, outcome |-> cancel.outcome]
    /\ UNCHANGED <<_customerId, _id, _items, _orderedAt, _currency, uuids, view, added, history>>

Next ==
    \/ \E productId \in ProductIds, quantity \in Quantities,
          unitPriceAmount \in UnitPriceAmounts :
            AddItem(productId, quantity, unitPriceAmount)
    \/ CalculateTotalAmount
    \/ Confirm
    \/ Ship
    \/ Cancel

Spec == Init /\ [][Next]_vars

\* ------------------------------------------- the array behind `items`
\* The accessor hands out the order's own array: the caller's reference and
\* this._items are one object.
items == [ref |-> "_items", array |-> <<>>]

GetItems ==
    /\ view' = items
    /\ last' = [op |-> "items", args |-> <<>>, outcome |-> Ok(items)]
    /\ UNCHANGED <<order, uuids, added, history>>

\* the array the caller's reference refers to
Held == IF view.ref = "_items" THEN _items ELSE view.array

\* a write through the reference the caller holds lands in the array it
\* refers to
WriteThroughView(op, args, array) ==
    /\ view.ref # "none"
    /\ IF view.ref = "_items"
       THEN _items' = array /\ view' = view
       ELSE _items' = _items /\ view' = [view EXCEPT !.array = array]
    /\ last' = [op |-> op, args |-> args, outcome |-> Ok(undefined)]
    /\ UNCHANGED <<_customerId, _id, _orderedAt, _currency, _state, added, history>>

\* order.items.push(new SalesOrderItem(orderId, productId, quantity,
\*                                      new Money(amount, currency)))
CallerPush(orderId, productId, quantity, amount, currency) ==
    LET unitPrice == Money(amount, currency)
        item == SalesOrderItem(orderId, productId, quantity, unitPrice.value,
                               uuids + 1)
    IN  /\ unitPrice.ok
        /\ item.ok
        /\ uuids < MaxUuids
        /\ Len(Held) < MaxItems
        /\ uuids' = uuids + 1
        /\ WriteThroughView("items.push", <<item.value>>, Append(Held, item.value))

\* order.items.pop()
CallerPop ==
    /\ Len(Held) > 0
    /\ UNCHANGED uuids
    /\ WriteThroughView("items.pop", <<>>, SubSeq(Held, 1, Len(Held) - 1))

\* order.items.reverse()
CallerReverse ==
    /\ Len(Held) > 1
    /\ UNCHANGED uuids
    /\ WriteThroughView("items.reverse", <<>>,
                        [i \in 1..Len(Held) |-> Held[Len(Held) + 1 - i]])

\* the order's operations together with a caller that keeps the array
AliasNext ==
    \/ \E quantity \in {Num(1), Num(2)} :
          AddItem(ProductId(<<"p", "1">>), quantity, Num(2))
    \/ CalculateTotalAmount
    \/ Confirm
    \/ Ship
    \/ Cancel
    \/ GetItems
    \/ \E orderId \in {0, _id}, currency \in Currencies :
          CallerPush(orderId, ProductId(<<"p", "2">>), Num(1), Num(1), currency)
    \/ CallerPop
    \/ CallerReverse

AliasSpec == Init /\ [][AliasNext]_vars

TypeOK ==
    /\ _state \in SalesOrderStates
    /\ Len(_items) <= MaxItems
    /\ uuids >= 1

\* ------------------------------------------------------------ error kinds
\* The code throws plain Error objects; a kind is told by its message.
InvalidStateTransition(message) ==
    /\ Len(message) = 3
    /\ message[1] \in {"Cannot confirm an order in ", "Cannot ship an order in ",
                       "Cannot cancel an order in "}
    /\ message[3] = " state"
InvalidOrderState(message) ==
    Len(message) = 3 /\ message[1] = "Cannot add items to a " /\ message[3] = " order"
InvalidProductId(message) == message = <<"Product ID is required">>
InvalidQuantity(message) == message = <<"Quantity must be greater than zero">>
InvalidUnitPrice(message) == message = <<"Unit price must be greater than zero">>

Transitions == {"confirm", "ship", "cancel"}
Guard(op) ==
    CASE op = "confirm" -> {"PENDING"}
      [] op = "ship" -> {"CONFIRMED"}
      [] op = "cancel" -> {"PENDING", "CONFIRMED"}
Target(op) ==
    CASE op = "confirm" -> "CONFIRMED"
      [] op = "ship" -> "SHIPPED"
      [] op = "cancel" -> "CANCELLED"

\* C1: the state changes only by confirm PENDING->CONFIRMED, ship
\* CONFIRMED->SHIPPED and cancel PENDING|CONFIRMED->CANCELLED; each of the
\* three operations succeeds exactly when its guard holds in the state it is
\* called in, and a success leaves the state of the transition table.
C1_TransitionTable ==
    [][ /\ (_state' # _state =>
              /\ last'.op \in Transitions
              /\ _state \in Guard(last'.op)
              /\ _state' = Target(last'.op))
        /\ (last'.op \in Transitions =>
              /\ last'.outcome.ok <=> _state \in Guard(last'.op)
              /\ last'.outcome.ok => _state' = Target(last'.op)) ]_vars
C1_Witness ==
    /\ _state = "CANCELLED" /\ last.op = "cancel" /\ last.outcome.ok
    /\ Len(_items) = 1

\* C2: SHIPPED and CANCELLED are terminal: no call of addItem, confirm, ship,
\* cancel or calculateTotalAmount leaves either state.
C2_Terminal ==
    [][ (_state \in {"SHIPPED", "CANCELLED"} => _state' = _state) ]_vars
C2_Witness ==
    /\ _state = "SHIPPED" /\ last.op = "cancel" /\ ~last.outcome.ok

\* C3: confirm, ship or cancel called outside its guard throws an
\* InvalidStateTransition error whose message names the state the order is in.
C3_InvalidTransitionFails ==
    [][ (last'.op \in Transitions /\ _state \notin Guard(last'.op)) =>
            /\ ~last'.outcome.ok
            /\ InvalidStateTransition(last'.outcome.error)
            /\ last'.outcome.error[2] = _state
            /\ last'.outcome.error[2] = _state'
      ]_vars
C3_Witness ==
    /\ _state = "CANCELLED" /\ last.op = "confirm"
    /\ last.outcome = Throw(<<"Cannot confirm an order in ", "CANCELLED", " state">>)

\* the arguments pass addItem's three validations
ValidArgs(args) ==
    /\ args[1] # null
    /\ \E i \in 1..Len(args[1].id) : args[1].id[i] \notin Whitespace
    /\ Lt(Num(0), args[2])
    /\ Lt(Num(0), args[3])

\* C4: in SHIPPED or CANCELLED every addItem call fails with
\* InvalidOrderState whatever its arguments; in PENDING or CONFIRMED no call
\* fails with InvalidOrderState and a call with valid arguments succeeds.
C4_AddItemGuard ==
    [][ last'.op = "addItem" =>
          IF _state \in {"SHIPPED", "CANCELLED"}
          THEN ~last'.outcome.ok /\ InvalidOrderState(last'.outcome.error)
          ELSE /\ _state \in {"PENDING", "CONFIRMED"}
               /\ ~last'.outcome.ok => ~InvalidOrderState(last'.outcome.error)
               /\ ValidArgs(last'.args) => last'.outcome.ok
      ]_vars
C4_Witness ==
    /\ _state = "SHIPPED" /\ last.op = "addItem" /\ ValidArgs(last.args)
    /\ last.outcome = Throw(<<"Cannot add items to a ", "SHIPPED", " order">>)
    /\ Len(_items) = 1 /\ _items[1].itemId = 2

\* the sum of unitPriceAmount x quantity over the addItem calls that returned
RECURSIVE SumOfAdded(_)
SumOfAdded(log) ==
    IF log = <<>> THEN Num(0)
    ELSE LET n == Len(log)
         IN  Plus(SumOfAdded(SubSeq(log, 1, n - 1)), Times(log[n][3], log[n][2]))

\* C5: in every state reached by the order's operations calculateTotalAmount
\* returns a Money in the order's currency whose amount is the sum of
\* unitPrice x quantity over the items of the successful addItem calls.
C5_TotalIsSum ==
    LET expected == Ok([amount |-> SumOfAdded(added), currency |-> _currency])
    IN  /\ calculateTotalAmount = expected
        /\ last.op = "calculateTotalAmount" => last.outcome = expected
C5_Witness ==
    /\ last.op = "calculateTotalAmount" /\ last.outcome.ok
    /\ last.outcome.value.amount = Num(6)
    /\ Len(added) = 2 /\ _state = "CANCELLED"

\* C6: a call of addItem, confirm, ship or cancel that throws leaves state,
\* items, id, customerId, currency and orderedAt as they were.
C6_NoPartialEffect ==
    [][ (last'.op \in Transitions \cup {"addItem"} /\ ~last'.outcome.ok) =>
            /\ _state' = _state /\ _items' = _items /\ _id' = _id
            /\ _customerId' = _customerId /\ _currency' = _currency
            /\ _orderedAt' = _orderedAt
      ]_vars
C6_Witness ==
    /\ last.op = "addItem" /\ ~last.outcome.ok
    /\ InvalidUnitPrice(last.outcome.error)
    /\ Len(_items) = 1 /\ _state = "CONFIRMED"

MissingOrEmpty(productId) == productId = null \/ productId.id = <<>>
MissingOrBlank(productId) ==
    productId = null \/ \A i \in 1..Len(productId.id) : productId.id[i] \in Whitespace

\* the validation order of addItem, for a given reading of "no product id"
ValidationOrder(noProductId, args, outcome) ==
    /\ noProductId =>
          ~outcome.ok /\ InvalidProductId(outcome.error)
    /\ (~noProductId /\ Le(args[2], Num(0))) =>
          ~outcome.ok /\ InvalidQuantity(outcome.error)
    /\ (~noProductId /\ ~Le(args[2], Num(0)) /\ Le(args[3], Num(0))) =>
          ~outcome.ok /\ InvalidUnitPrice(outcome.error)
    /\ outcome.ok =>
          ~noProductId /\ ~Le(args[2], Num(0)) /\ ~Le(args[3], Num(0))
    /\ ~outcome.ok =>
          Cardinality({k \in 1..4 :
              <<InvalidOrderState(outcome.error), InvalidProductId(outcome.error),
                InvalidQuantity(outcome.error), InvalidUnitPrice(outcome.error)>>[k]}) = 1

\* C7 as stated: in a state that permits adding items addItem fails with
\* InvalidProductId if the productId is missing or empty, else with
\* InvalidQuantity if quantity <= 0, else with InvalidUnitPrice if
\* unitPriceAmount <= 0, and succeeds only if all three checks pass.
C7_AsStated ==
    [][ (last'.op = "addItem" /\ canAddItems) =>
            ValidationOrder(MissingOrEmpty(last'.args[1]), last'.args, last'.outcome) ]_vars

\* C7 amended: as C7, with InvalidProductId thrown if the productId is
\* missing or its id is empty or consists only of whitespace.
C7_ValidationOrder ==
    [][ (last'.op = "addItem" /\ canAddItems) =>
            ValidationOrder(MissingOrBlank(last'.args[1]), last'.args, last'.outcome) ]_vars
C7_Witness ==
    /\ last.op = "addItem" /\ _state = "PENDING"
    /\ last.args = <<ProductId(<<" ">>), Num(0), Num(0)>>
    /\ last.outcome = Throw(<<"Product ID is required">>)

IsPrefix(s, t) == Len(s) <= Len(t) /\ SubSeq(t, 1, Len(s)) = s

\* the effect of a successful addItem on the item sequence
AppendsOneItem ==
    (last'.op = "addItem" /\ last'.outcome.ok) =>
        /\ Len(_items') = Len(_items) + 1
        /\ SubSeq(_items', 1, Len(_items)) = _items
        /\ LET item == _items'[Len(_items')]
           IN  /\ item.productId = last'.args[1]
               /\ item.quantity = last'.args[2]
               /\ item.unitPrice = [amount |-> last'.args[3], currency |-> _currency]
               /\ item.orderId = _id
               /\ \A i \in 1..Len(_items) : _items[i].itemId # item.itemId

\* C8: a successful addItem appends exactly one new item with the given
\* productId and quantity, unit price Money(unitPriceAmount, currency) and
\* the order's id, leaving the earlier items in place (no merge, no dedup);
\* and the item sequence at any point is a prefix of the sequence at any
\* later point.
C8_AppendOnly ==
    [][ AppendsOneItem /\ IsPrefix(_items, _items') ]_vars

C8_Witness ==
    /\ last.op = "addItem" /\ last.outcome.ok /\ Len(_items) = 2
    /\ _items[1].productId = _items[2].productId
    /\ _items[1].quantity = _items[2].quantity
    /\ _items[1].unitPrice = _items[2].unitPrice
    /\ _items[1].itemId # _items[2].itemId

\* C9: every item's unit price has the order's currency code, and
\* calculateTotalAmount never throws and returns a Money in the order's
\* currency.
C9_SingleCurrency ==
    /\ \A i \in 1..Len(_items) : _items[i].unitPrice.currency.code = _currency.code
    /\ calculateTotalAmount.ok
    /\ calculateTotalAmount.value.currency = _currency
    /\ last.op = "calculateTotalAmount" => last.outcome.ok

C9_Witness ==
    /\ _currency = EUR /\ Len(_items) = 2
    /\ last.op = "calculateTotalAmount"
    /\ last.outcome = Ok([amount |-> Num(6), currency |-> EUR])

\* C10: what a caller does to the collection obtained from `items` changes
\* neither the order's item sequence nor its total, so every item of the
\* order is the item of a successful addItem call, in call order.
C10_ItemsOnlyThroughAddItem ==
    /\ Len(_items) = Len(added)
    /\ \A i \in 1..Len(_items) :
          /\ <<_items[i].productId, _items[i].quantity, _items[i].unitPrice.amount>>
                = added[i]
          /\ _items[i].orderId = _id
          /\ _items[i].unitPrice.currency = _currency
    /\ calculateTotalAmount = Ok([amount |-> SumOfAdded(added), currency |-> _currency])

\* ------------------------------------- construction and the value objects
\* The constructors and the methods of the value objects, called with inputs
\* drawn from small sets; the order's fields are undefined until a
\* `new SalesOrder(...)` returns.
CustomerIds ==
    {undefined, String(<<>>), String(<<" ">>), String(<<" ", "\t">>),
     String(<<"c", "1">>), String(<<" ", "c", " ">>)}
Clock == {Now, Now + 1}
DateValues ==
    {[kind |-> "undefined"], [kind |-> "empty"], [kind |-> "invalid"]}
        \cup {[kind |-> "date", t |-> t] : t \in (Now - 1)..(Now + 2)}
Amounts == {Num(n) : n \in -1..MaxQty} \cup {NaN}

Constructed == _id # 0

ValueInit ==
    /\ _customerId = undefined
    /\ _id = 0
    /\ _items = <<>>
    /\ _orderedAt = undefined
    /\ _currency = undefined
    /\ _state = undefined
    /\ uuids = 0
    /\ view = [ref |-> "none", array |-> <<>>]
    /\ added = <<>>
    /\ history = <<>>
    /\ last = [op |-> "start", args |-> <<>>, outcome |-> Ok(undefined)]

\* new SalesOrder(customerId, currency, orderedAt), the clock reading `now`
New(customerId, currency, orderedAt, now) ==
    LET this == SalesOrder(customerId, currency, orderedAt, now, uuids + 1)
    IN  /\ ~Constructed
        /\ last' = [op |-> "new", args |-> <<customerId, currency, orderedAt, now>>,
                    outcome |-> this]
        /\ IF this.ok
           THEN /\ _customerId' = this.value.customerId
                /\ _id' = this.value.id
                /\ _items' = this.value.items
                /\ _orderedAt' = this.value.orderedAt
                /\ _currency' = this.value.currency
                /\ _state' = this.value.state
                /\ uuids' = uuids + 1
           ELSE UNCHANGED <<order, uuids>>
        /\ UNCHANGED <<view, added, history>>

\* new DateTime(value), the clock reading `now`
NewDateTime(value, now) ==
    /\ last' = [op |-> "DateTime", args |-> <<value, now>>,
                outcome |-> DateTime(value, now)]
    /\ UNCHANGED <<order, uuids, view, added, history>>

\* new Money(amount, currency)
NewMoney(amount, currency) ==
    /\ last' = [op |-> "Money", args |-> <<amount, currency>>,
                outcome |-> Money(amount, currency)]
    /\ UNCHANGED <<order, uuids, view, added, history>>

\* new Money(a, c1).add(new Money(b, c2)); `operands` are the two objects
\* as they are after the call
MoneyAdd(a, c1, b, c2) ==
    LET this == Money(a, c1)
        other == Money(b, c2)
    IN  /\ this.ok /\ other.ok
        /\ last' = [op |-> "add", args |-> <<a, c1, b, c2>>,
                    operands |-> <<this.value, other.value>>,
                    outcome |-> add(this.value, other.value)]
        /\ UNCHANGED <<order, uuids, view, added, history>>

\* new Money(a, c).multiply(factor)
MoneyMultiply(a, c, factor) ==
    LET this == Money(a, c)
    IN  /\ this.ok
        /\ last' = [op |-> "multiply", args |-> <<a, c, factor>>,
                    operands |-> <<this.value>>,
                    outcome |-> multiply(this.value, factor)]
        /\ UNCHANGED <<order, uuids, view, added, history>>

\* new SalesOrderItem(orderId, productId, quantity, new Money(a, c))
\*     .calculateItemTotal()
ItemTotal(quantity, a, c) ==
    LET unitPrice == Money(a, c)
        item == SalesOrderItem(_id, ProductId(<<"p", "1">>), quantity,
                               unitPrice.value, uuids + 1)
    IN  /\ unitPrice.ok
        /\ item.ok
        /\ last' = [op |-> "calculateItemTotal", args |-> <<quantity, a, c>>,
                    outcome |-> calculateItemTotal(item.value)]
        /\ UNCHANGED <<order, uuids, view, added, history>>

\* new Currency(code), the code coming from a caller the compiler does not
\* check (JavaScript, a cast, parsed input)
Codes ==
    {<<"U", "S", "D">>, <<"E", "U", "R">>, <<"u", "s", "d">>, <<"U", "S">>,
     <<"U", "S", "D", "T">>, <<"U", "5", "D">>, <<>>}

NewCurrency(code) ==
    /\ last' = [op |-> "Currency", args |-> <<code>>,
                outcome |-> Ok(Currency(code))]
    /\ UNCHANGED <<order, uuids, view, added, history>>

ValueNext ==
    \/ \E customerId \in CustomerIds, currency \in Currencies,
          orderedAt \in DateValues, now \in Clock :
            New(customerId, currency, orderedAt, now)
    \/ (Constructed /\ CalculateTotalAmount)
    \/ \E value \in DateValues, now \in Clock : NewDateTime(value, now)
    \/ \E amount \in Amounts, currency \in Currencies : NewMoney(amount, currency)
    \/ \E a \in Amounts, b \in Amounts, c1 \in Currencies, c2 \in Currencies :
            MoneyAdd(a, c1, b, c2)
    \/ \E a \in Amounts, c \in Currencies, factor \in Amounts :
            MoneyMultiply(a, c, factor)
    \/ \E quantity \in Amounts, a \in Amounts, c \in Currencies :
            ItemTotal(quantity, a, c)
    \/ \E code \in Codes : NewCurrency(code)

ValueSpec == ValueInit /\ [][ValueNext]_vars

MissingCustomerId(message) == message = <<"Customer ID is required">>

\* C11: a SalesOrder that has just been constructed is PENDING with no
\* items, and calculateTotalAmount on an order without items returns a Money
\* of amount zero in the order's currency.
C11_NewOrderPendingEmpty ==
    /\ (last.op = "new" /\ last.outcome.ok) =>
          /\ _state = "PENDING"
          /\ _items = <<>>
          /\ _currency = last.args[2]
          /\ calculateTotalAmount = Ok([amount |-> Num(0), currency |-> last.args[2]])
    /\ (last.op = "calculateTotalAmount" /\ _items = <<>>) =>
          last.outcome = Ok([amount |-> Num(0), currency |-> _currency])
C11_Witness ==
    /\ last.op = "calculateTotalAmount" /\ _state = "PENDING" /\ _items = <<>>
    /\ _customerId = String(<<"c", "1">>)
    /\ last.outcome = Ok([amount |-> Num(0), currency |-> USD])

BlankCustomerId(customerId) ==
    \/ customerId = undefined
    \/ \A i \in 1..Len(customerId.chars) : customerId.chars[i] \in Whitespace
ValidOrderedAt(value, now) ==
    value.kind = "undefined" \/ (value.kind = "date" /\ value.t <= now)

\* C12: new SalesOrder fails with MissingCustomerId exactly when the
\* customerId is absent, empty or only whitespace; with any other customerId
\* and a valid orderedAt it succeeds; no order has a blank customerId.
C12_CustomerIdRequired ==
    /\ last.op = "new" =>
          /\ (~last.outcome.ok /\ MissingCustomerId(last.outcome.error))
                <=> BlankCustomerId(last.args[1])
          /\ (~BlankCustomerId(last.args[1])
                /\ ValidOrderedAt(last.args[3], last.args[4])) => last.outcome.ok
    /\ Constructed => ~BlankCustomerId(_customerId)
C12_Witness ==
    /\ last.op = "new" /\ last.args[1] = String(<<" ", "\t">>)
    /\ last.args[3] = [kind |-> "date", t |-> Now]
    /\ last.outcome = Throw(<<"Customer ID is required">>)
    /\ ~Constructed

CurrencyMismatch(message) ==
    message = <<"Cannot add amounts with different currencies">>

\* C13: for non-negative amounts a and b, Money(a, c1).add(Money(b, c2))
\* returns a Money of amount a + b in currency c1 when the two currency codes
\* are equal and fails with CurrencyMismatch when they differ; after the
\* call both operands still hold the amount and currency they were built with.
C13_AddSameCurrency ==
    (last.op = "add" /\ Le(Num(0), last.args[1]) /\ Le(Num(0), last.args[3])) =>
        LET a == last.args[1]
            c1 == last.args[2]
            b == last.args[3]
            c2 == last.args[4]
        IN  /\ c1.code = c2.code =>
                last.outcome = Ok([amount |-> Num(a.v + b.v), currency |-> c1])
            /\ c1.code # c2.code =>
                ~last.outcome.ok /\ CurrencyMismatch(last.outcome.error)
            /\ last.operands = << [amount |-> a, currency |-> c1],
                                  [amount |-> b, currency |-> c2] >>

C13_Witness ==
    /\ last.op = "add"
    /\ last.args = <<Num(1), USD, Num(2), USD>>
    /\ last.outcome = Ok([amount |-> Num(3), currency |-> USD])

InvalidFactor(message) ==
    Len(message) = 2 /\ message[1] = "Factor cannot be negative: "

\* C14: Money(a, c).multiply(f) fails with InvalidFactor for every f < 0 and
\* for every f >= 0 returns a Money of amount a * f in currency c, a zero
\* amount when f = 0; the receiver keeps its amount and currency.
C14_Multiply ==
    last.op = "multiply" =>
        LET a == last.args[1]
            c == last.args[2]
            f == last.args[3]
        IN  /\ Lt(f, Num(0)) =>
                ~last.outcome.ok /\ InvalidFactor(last.outcome.error)
            /\ Le(Num(0), f) =>
                /\ last.outcome.ok
                /\ last.outcome.value.currency = c
                /\ last.outcome.value.amount = Times(a, f)
                /\ f = Num(0) => last.outcome.value.amount = Num(0)
            /\ last.operands = << [amount |-> a, currency |-> c] >>

InvalidAmount(message) == message = <<"Amount cannot be negative">>

\* C15: every Money has an amount >= 0: new Money with a negative amount
\* fails with InvalidAmount, and every Money that a constructor, add,
\* multiply, calculateItemTotal or calculateTotalAmount returns has an amount
\* that is at least zero.
C15_AmountNonNegative ==
    /\ (last.op = "Money" /\ Lt(last.args[1], Num(0))) =>
            ~last.outcome.ok /\ InvalidAmount(last.outcome.error)
    /\ ( /\ last.op \in {"Money", "add", "multiply", "calculateItemTotal",
                          "calculateTotalAmount"}
         /\ last.outcome.ok ) =>
            Le(Num(0), last.outcome.value.amount)

InvalidDate(message) == Len(message) = 2 /\ message[1] = "Invalid date: "
FutureDate(message) ==
    Len(message) = 2 /\ message[1] = "Date cannot be in the future: "

\* a value that new Date(value) cannot parse: '' and any other non-date text
Unparseable(value) == value.kind \in {"empty", "invalid"}

\* C16: with `now` the clock reading taken by the constructor, new
\* DateTime(value) fails with FutureDate exactly when the value is strictly
\* later than now, fails with InvalidDate when the value is unparseable, and
\* new DateTime() never fails and holds now; every DateTime, and the
\* orderedAt of every order, holds a time not after that clock reading.
C16_DateTimeNotInFuture ==
    /\ last.op = "DateTime" =>
            LET value == last.args[1]
                now == last.args[2]
            IN  /\ (~last.outcome.ok /\ FutureDate(last.outcome.error))
                        <=> (value.kind = "date" /\ value.t > now)
                /\ Unparseable(value) =>
                        ~last.outcome.ok /\ InvalidDate(last.outcome.error)
                /\ value.kind = "undefined" => last.outcome = Ok([date |-> now])
                /\ last.outcome.ok => last.outcome.value.date <= now
    /\ (last.op = "new" /\ last.outcome.ok) => _orderedAt.date <= last.args[4]

\* C17: new Currency(code) fails (with InvalidCurrencyCode; the code has no
\* error of that kind, so any throw counts) when the code is not exactly
\* three uppercase letters, so every Currency that exists has a code of
\* exactly three uppercase letters.
C17_CurrencyCodeValidated ==
    last.op = "Currency" =>
        /\ ~CurrencyCode(last.args[1]) => ~last.outcome.ok
        /\ last.outcome.ok => CurrencyCode(last.outcome.value.code)

\* ------------------------------------------ several callers, one order
\* Callers share one order; each call runs from its first statement to its
\* return or throw without another call in between.
Callers == {"a", "b"}

\* calls made on the shared order before the callers stop
MaxCalls == MaxItems + 3

Entry(caller, op, outcome) ==
    [caller |-> caller, op |-> op, before |-> _state, after |-> _state',
     count |-> Len(_items'), outcome |-> outcome]

CallAddItem(caller, productId, quantity, unitPriceAmount) ==
    LET r == addItem(productId, quantity, unitPriceAmount)
    IN  /\ Len(history) < MaxCalls
        /\ r.outcome.ok => (Len(_items) < MaxItems /\ uuids < MaxUuids)
        /\ _items' = r.items
        /\ uuids' = IF r.outcome.ok THEN uuids + 1 ELSE uuids
        /\ added' = IF r.outcome.ok
                    THEN Append(added, <<productId, quantity, unitPriceAmount>>)
                    ELSE added
        /\ last' = [op |-> "addItem",
                    args |-> <<productId, quantity, unitPriceAmount>>,
                    outcome |-> r.outcome]
        /\ UNCHANGED <<_customerId, _id, _orderedAt, _currency, _state, view>>
        /\ history' = Append(history, Entry(caller, "addItem", r.outcome))

CallConfirm(caller) ==
    /\ Len(history) < MaxCalls
    /\ _state' = confirm.state
    /\ last' = [op |-> "confirm", args |-> <<>>, outcome |-> confirm.outcome]
    /\ UNCHANGED <<_customerId, _id, _items, _orderedAt, _currency, uuids, view, added>>
    /\ history' = Append(history, Entry(caller, "confirm", confirm.outcome))

CallShip(caller) ==
    /\ Len(history) < MaxCalls
    /\ _state' = ship.state
    /\ last' = [op |-> "ship", args |-> <<>>, outcome |-> ship.outcome]
    /\ UNCHANGED <<_customerId, _id, _items, _orderedAt, _currency, uuids, view, added>>
    /\ history' = Append(history, Entry(caller, "ship", ship.outcome))

CallCancel(caller) ==
    /\ Len(history) < MaxCalls
    /\ _state' = cancel.state
    /\ last' = [op |-> "cancel", args |-> <<>>, outcome |-> cancel.outcome]
    /\ UNCHANGED <<_customerId, _id, _items, _orderedAt, _currency, uuids, view, added>>
    /\ history' = Append(history, Entry(caller, "cancel", cancel.outcome))

SharedNext ==
    \/ \E caller \in Callers, quantity \in {Num(0), Num(1)} :
          CallAddItem(caller, ProductId(<<"p", "1">>), quantity, Num(2))
    \/ \E caller \in Callers : CallConfirm(caller)
    \/ \E caller \in Callers : CallShip(caller)
    \/ \E caller \in Callers : CallCancel(caller)

SharedSpec == Init /\ [][SharedNext]_vars

Succeeded(op) == {i \in 1..Len(history) : history[i].op = op /\ history[i].outcome.ok}
Terminal(i) == history[i].op \in {"ship", "cancel"} /\ history[i].outcome.ok

\* C18: when the calls of several callers on one order run one at a time,
\* each call acts on the state the call before it left; of a ship and a
\* cancel made by two callers on a CONFIRMED order exactly the one that runs
\* first succeeds and the other fails with InvalidStateTransition; an addItem
\* that runs after a successful ship or cancel fails with InvalidOrderState
\* and appends nothing, and one that succeeds ran before and appended one item.
C18_Serialized ==
    /\ \A i \in 1..Len(history) :
          /\ history[i].before = IF i = 1 THEN "PENDING" ELSE history[i - 1].after
          /\ history[i].count =
                (IF i = 1 THEN 0 ELSE history[i - 1].count)
                + (IF history[i].op = "addItem" /\ history[i].outcome.ok THEN 1 ELSE 0)
    /\ \A i \in 1..Len(history), j \in 1..Len(history) :
          ( /\ i < j
            /\ history[i].caller # history[j].caller
            /\ {history[i].op, history[j].op} = {"ship", "cancel"}
            /\ history[i].before = "CONFIRMED" ) =>
              /\ history[i].outcome.ok
              /\ ~history[j].outcome.ok
              /\ InvalidStateTransition(history[j].outcome.error)
    /\ \A i \in 1..Len(history), j \in 1..Len(history) :
          (i < j /\ Terminal(i) /\ history[j].op = "addItem") =>
              /\ ~history[j].outcome.ok
              /\ InvalidOrderState(history[j].outcome.error)
              /\ history[j].count = history[i].count

C18_Witness ==
    \E i \in 1..Len(history), j \in 1..Len(history), k \in 1..Len(history) :
        /\ i < j /\ j < k
        /\ history[i].op = "cancel" /\ history[i].caller = "a"
        /\ history[i].before = "CONFIRMED" /\ history[i].outcome.ok
        /\ history[i].count = 1
        /\ history[j].op = "ship" /\ history[j].caller = "b"
        /\ ~history[j].outcome.ok
        /\ history[k].op = "addItem" /\ ~history[k].outcome.ok

\* C19: in the history of an order each of confirm, ship and cancel succeeds
\* at most once, a successful ship comes after a successful confirm, and a
\* successful ship and a successful cancel never both occur.
C19_AtMostOnce ==
    /\ \A op \in {"confirm", "ship", "cancel"} : Cardinality(Succeeded(op)) <= 1
    /\ \A j \in Succeeded("ship") : \E i \in Succeeded("confirm") : i < j
    /\ Succeeded("ship") = {} \/ Succeeded("cancel") = {}

C19_Witness ==
    /\ Len(history) = MaxCalls
    /\ Succeeded("confirm") = {2}
    /\ Succeeded("ship") = {4}
    /\ \E i \in 1..Len(history) :
          i > 4 /\ history[i].op \in {"confirm", "ship", "cancel"}

\* the amount calculateTotalAmount would return
Total == calculateTotalAmount.value.amount

\* C20: while the order is changed only by its own operations, every item
\* has a quantity > 0, a unit price amount > 0 and the order's id as orderId;
\* the total is strictly positive whenever there is an item, and every
\* successful addItem strictly increases the total.
C20_ItemsPositive ==
    /\ []( /\ \A i \in 1..Len(_items) :
                /\ Lt(Num(0), _items[i].quantity)
                /\ Lt(Num(0), _items[i].unitPrice.amount)
                /\ _items[i].orderId = _id
           /\ Len(_items) >= 1 =>
                calculateTotalAmount.ok /\ Lt(Num(0), Total) )
    /\ [][ (last'.op = "addItem" /\ last'.outcome.ok) =>
                (calculateTotalAmount.ok /\ calculateTotalAmount'.ok
                 /\ Lt(Total, Total')) ]_vars

\* the fields declared readonly that are assigned once, by the constructor
Identity == <<_id, _customerId, _currency, _orderedAt>>

\* C21: a successful confirm, ship or cancel changes only the state: the
\* items, the value of calculateTotalAmount, id, customerId, currency and
\* orderedAt stay as they were; a successful addItem leaves state, id,
\* customerId, currency and orderedAt as they were; calculateTotalAmount
\* changes no field of the order; so id, customerId, currency and orderedAt
\* never change.
C21_FrameEffects ==
    [][ /\ (last'.op \in {"confirm", "ship", "cancel"} /\ last'.outcome.ok) =>
              /\ _items' = _items
              /\ calculateTotalAmount' = calculateTotalAmount
              /\ Identity' = Identity
        /\ (last'.op = "addItem" /\ last'.outcome.ok) =>
              /\ _state' = _state
              /\ Identity' = Identity
        /\ last'.op = "calculateTotalAmount" => order' = order
        /\ Identity' = Identity
      ]_vars

C21_Witness ==
    /\ _state = "SHIPPED" /\ last.op = "ship" /\ last.outcome.ok
    /\ Len(_items) = MaxItems
    /\ calculateTotalAmount = Ok([amount |-> Num(2 * MaxItems), currency |-> _currency])
====
